---- MODULE Spec2Model ----
(***************************************************************************)
(* Model of SmartBudgetAIChatbot (src/ChatBot/chatbot.py) and of the way   *)
(* src/ChatBot/app.py drives it.                                           *)
(*                                                                         *)
(* An utterance is a sequence of tokens separated by single blanks.  A     *)
(* token is a word made of letters ("word"), a word holding an apostrophe  *)
(* ("apos"), a currency marker ("cur"), a number written as comma          *)
(* separated digit groups ("num"), or a punctuation mark ("punct").  The   *)
(* regular expressions of the source are evaluated on tokens: a literal    *)
(* phrase matches consecutive word tokens (case-insensitively), \s+ is the *)
(* blank between two tokens, and a character class stops at the first      *)
(* token that is not of the class.  Amounts are whole numbers.  A pattern   *)
(* that the source also finds inside a longer word ("hi" in "this") is     *)
(* found here in whole words only.                                         *)
(***************************************************************************)
EXTENDS Integers, Sequences, FiniteSets, TLC

\* Python's None, for the optional fields that hold strings.
None == "<None>"

--------------------------------------------------------------------------
\* Tokens and utterances

W(s) == [k |-> "word", w |-> s, d |-> <<>>]
A(s) == [k |-> "apos", w |-> s, d |-> <<>>]
P(s) == [k |-> "punct", w |-> s, d |-> <<>>]
N(groups) == [k |-> "num", w |-> "", d |-> groups]

U_rename == <<W("call"), W("you"), W("Bob")>>
U_alias == <<W("call"), W("you"), W("Ankit")>>
U_identity == <<W("who"), W("are"), W("you")>>
U_guardfact == <<W("who"), W("are"), W("you"), P(","), W("my"), W("income"), W("is"), N(<< <<9>>, <<0, 0, 0>> >>)>>
U_savings == <<W("I"), W("want"), W("to"), W("save"), N(<< <<2>>, <<0, 0, 0>> >>)>>
U_income0 == <<W("my"), W("income"), W("is"), N(<< <<0>> >>)>>
U_income == <<W("my"), W("salary"), W("is"), N(<< <<1, 0>>, <<0, 0, 0>> >>)>>
U_income5 == <<W("I"), W("earn"), N(<< <<5>>, <<0, 0, 0>> >>)>>
U_food == <<W("I"), W("spend"), N(<< <<1, 0, 0, 0>> >>), W("on"), W("food")>>
U_rent == <<W("I"), W("pay"), N(<< <<4, 0, 0, 0>> >>), W("for"), W("rent")>>
U_travel == <<W("I"), W("paid"), N(<< <<4>>, <<0, 0, 0>> >>), W("for"), W("travel")>>
U_restate == <<W("I"), W("spent"), N(<< <<5, 0, 0>> >>), W("on"), W("Food"), P(","),
               W("I"), W("spent"), N(<< <<3, 0, 0>> >>), W("on"), W("food")>>
U_budget == <<W("budget"), W("summary")>>
U_thanks == <<W("thanks")>>
U_name == <<W("my"), W("name"), W("is"), W("ankit")>>
U_name2 == <<W("I"), W("am"), W("Bob")>>
U_hello == <<W("hello")>>
U_caps == <<W("what"), W("can"), W("you"), W("do")>>
U_features == <<W("show"), W("me"), W("your"), W("Features")>>

\* str.lower() on the words of the vocabulary.
Lower(w) ==
    CASE w = "I" -> "i"
      [] w = "Bob" -> "bob"
      [] w = "Ankit" -> "ankit"
      [] w = "Food" -> "food"
      [] w = "Features" -> "features"
      [] OTHER -> w

\* str.capitalize() / str.title() on a single word of the vocabulary.
Capitalize(w) ==
    CASE Lower(w) = "bob" -> "Bob"
      [] Lower(w) = "ankit" -> "Ankit"
      [] Lower(w) = "food" -> "Food"
      [] Lower(w) = "i" -> "I"
      [] Lower(w) = "rent" -> "Rent"
      [] Lower(w) = "travel" -> "Travel"
      [] OTHER -> w

Min(S) == CHOOSE x \in S : \A y \in S : x <= y

IsWordTok(t) == t.k \in {"word", "apos"}
IsAlpha(t) == t.k = "word"

\* A literal phrase of a pattern at position i (flag (?i)).
PhraseAt(toks, i, phrase) ==
    /\ i >= 1
    /\ i + Len(phrase) - 1 <= Len(toks)
    /\ \A j \in 1..Len(phrase) :
          IsWordTok(toks[i + j - 1]) /\ Lower(toks[i + j - 1].w) = phrase[j]

\* re.search(phrase, text) / phrase in text.lower()
ContainsPhrase(toks, phrase) == \E i \in 1..Len(toks) : PhraseAt(toks, i, phrase)

\* (?:rs\.?|₹)?\s*(\d+(?:,\d+)*(?:\.\d+)?) from position j: the position of the
\* number, 0 when there is none.
AmountPosFrom(toks, j) ==
    IF j >= 1 /\ j <= Len(toks) /\ toks[j].k = "num" THEN j
    ELSE IF j >= 1 /\ j + 1 <= Len(toks) /\ toks[j].k = "cur" /\ toks[j + 1].k = "num" THEN j + 1
    ELSE 0

\* .replace(",", ""): the digit groups joined.
RECURSIVE RemoveCommas(_)
RemoveCommas(groups) ==
    IF groups = <<>> THEN <<>> ELSE Head(groups) \o RemoveCommas(Tail(groups))

\* float(digits), for whole numbers.
RECURSIVE ParseFloat(_)
ParseFloat(digits) ==
    IF digits = <<>> THEN 0
    ELSE 10 * ParseFloat(SubSeq(digits, 1, Len(digits) - 1)) + digits[Len(digits)]

AmountAt(toks, j) == ParseFloat(RemoveCommas(toks[j].d))

--------------------------------------------------------------------------
\* The patterns of the source

\* rename_pattern: (?:call you|name you|rename you|your name is|you are|you're) ([a-zA-Z]+)
RenamePhrases ==
    {<<"call", "you">>, <<"name", "you">>, <<"rename", "you">>,
     <<"your", "name", "is">>, <<"you", "are">>, <<"you're">>}

RenamePositions(toks) ==
    {i \in 1..Len(toks) : \E p \in RenamePhrases :
        /\ PhraseAt(toks, i, p)
        /\ i + Len(p) <= Len(toks)
        /\ IsAlpha(toks[i + Len(p)])}

\* rename_match.group(1) of the leftmost match, None without a match.
RenameCapture(toks) ==
    IF RenamePositions(toks) = {} THEN None
    ELSE LET i == Min(RenamePositions(toks))
             p == CHOOSE q \in RenamePhrases :
                     PhraseAt(toks, i, q) /\ i + Len(q) <= Len(toks) /\ IsAlpha(toks[i + Len(q)])
         IN toks[i + Len(p)].w

\* The names the remote path and the local path accept for the assistant.
RemoteAliases == {"fin", "chatbot", "bot", "assistant"}
LocalAliases == {"ankit", "kumar", "chatbot", "bot", "assistant"}

IsRenameAttempt(toks, aliases) ==
    RenameCapture(toks) # None /\ Lower(RenameCapture(toks)) \notin aliases

\* name_patterns of get_ai_response and generate_contextual_response
IdentityPhrases ==
    {<<"what's", "your", "name">>, <<"what", "is", "your", "name">>, <<"who", "are", "you">>,
     <<"introduce", "yourself">>, <<"your", "name">>, <<"call", "you">>}

IsIdentityQuery(toks) == \E p \in IdentityPhrases : ContainsPhrase(toks, p)

\* bank_keywords
BankKeywords ==
    {<<"fd">>, <<"fixed", "deposit">>, <<"interest", "rate">>, <<"bank", "rate">>, <<"rd">>,
     <<"recurring", "deposit">>, <<"savings", "account">>, <<"loan", "rate">>,
     <<"credit", "card">>, <<"emi">>, <<"banking", "product">>}

HasBankKeyword(toks) == \E p \in BankKeywords : ContainsPhrase(toks, p)

\* income_pattern: (?:income|earn|salary|make|making)(?:\s+is|\s+of)?\s+(?:rs\.?|₹)?\s*(\d+...)
IncomeWords == {"income", "earn", "salary", "make", "making"}

\* The position of the number the pattern captures when it matches at i, else 0.
IncomeAt(toks, i) ==
    IF ~(IsWordTok(toks[i]) /\ Lower(toks[i].w) \in IncomeWords) THEN 0
    ELSE IF i + 1 <= Len(toks) /\ IsWordTok(toks[i + 1]) /\ Lower(toks[i + 1].w) \in {"is", "of"}
         THEN AmountPosFrom(toks, i + 2)
         ELSE AmountPosFrom(toks, i + 1)

IncomePositions(toks) == {i \in 1..Len(toks) : IncomeAt(toks, i) # 0}

\* savings_patterns[0]: (?:save|saving|savings|goal)\s+(?:rs\.?|₹)?\s*(\d+...)
SavingsWords == {"save", "saving", "savings", "goal"}

SavingsAt1(toks, i) ==
    IF IsWordTok(toks[i]) /\ Lower(toks[i].w) \in SavingsWords
    THEN AmountPosFrom(toks, i + 1) ELSE 0

\* savings_patterns[1]: (?:want to|wanna|going to|plan to)\s+save\s+(?:rs\.?|₹)?\s*(\d+...)
SavingsLeadIns == {<<"want", "to">>, <<"wanna">>, <<"going", "to">>, <<"plan", "to">>}

SavingsAt2(toks, i) ==
    IF \E p \in SavingsLeadIns : PhraseAt(toks, i, p \o <<"save">>)
    THEN LET p == CHOOSE q \in SavingsLeadIns : PhraseAt(toks, i, q \o <<"save">>)
         IN AmountPosFrom(toks, i + Len(p) + 1)
    ELSE 0

SavingsPositions1(toks) == {i \in 1..Len(toks) : SavingsAt1(toks, i) # 0}
SavingsPositions2(toks) == {i \in 1..Len(toks) : SavingsAt2(toks, i) # 0}

\* The position of the number captured by the first savings pattern that
\* matches (patterns in list order, each by its leftmost match), else 0.
SavingsAmountPos(toks) ==
    IF SavingsPositions1(toks) # {} THEN SavingsAt1(toks, Min(SavingsPositions1(toks)))
    ELSE IF SavingsPositions2(toks) # {} THEN SavingsAt2(toks, Min(SavingsPositions2(toks)))
    ELSE 0

\* expense_pattern:
\* (?:spend|spent|spending|pay|paying|paid|expense|expenses|cost|costs)\s+(?:rs\.?|₹)?\s*
\* (\d+...)\s+(?:on|for|in)\s+([a-zA-Z\s]+)
ExpenseVerbs ==
    {"spend", "spent", "spending", "pay", "paying", "paid", "expense", "expenses", "cost", "costs"}
ExpensePreps == {"on", "for", "in"}

\* The last token of the longest run of letter words that starts at j.
RECURSIVE AlphaRunEnd(_, _)
AlphaRunEnd(toks, j) ==
    IF j + 1 <= Len(toks) /\ IsAlpha(toks[j + 1]) THEN AlphaRunEnd(toks, j + 1) ELSE j

\* The match of expense_pattern at i: where its number is and where its
\* category starts and ends; amt = 0 when it does not match at i.
ExpenseAt(toks, i) ==
    LET a == IF IsWordTok(toks[i]) /\ Lower(toks[i].w) \in ExpenseVerbs
             THEN AmountPosFrom(toks, i + 1) ELSE 0
        ok == /\ a # 0
              /\ a + 2 <= Len(toks)
              /\ IsWordTok(toks[a + 1]) /\ Lower(toks[a + 1].w) \in ExpensePreps
              /\ IsAlpha(toks[a + 2])
    IN IF ok THEN [amt |-> a, from |-> a + 2, to |-> AlphaRunEnd(toks, a + 2)]
       ELSE [amt |-> 0, from |-> 0, to |-> 0]

\* match.group(2).strip().lower(): the category words, lower-cased.
CategoryKey(toks, from, to) == [j \in 1..(to - from + 1) |-> Lower(toks[from + j - 1].w)]

\* re.finditer(expense_pattern, text) from position i on: the matches left to
\* right, none overlapping, each as (amount, category).
RECURSIVE ExpenseMatchesFrom(_, _)
ExpenseMatchesFrom(toks, i) ==
    IF i > Len(toks) THEN <<>>
    ELSE LET m == ExpenseAt(toks, i)
         IN IF m.amt = 0 THEN ExpenseMatchesFrom(toks, i + 1)
            ELSE <<[amount |-> AmountAt(toks, m.amt),
                    category |-> CategoryKey(toks, m.from, m.to)]>>
                 \o ExpenseMatchesFrom(toks, m.to + 1)

ExpenseMatches(toks) == ExpenseMatchesFrom(toks, 1)

\* name_patterns of extract_financial_info, in list order
NamePhrases1 == {<<"my", "name", "is">>, <<"i", "am">>, <<"i'm">>}
NamePhrases2 == {<<"call", "me">>}

NamePositions(toks, phrases) ==
    {i \in 1..Len(toks) : \E p \in phrases :
        PhraseAt(toks, i, p) /\ i + Len(p) <= Len(toks) /\ IsAlpha(toks[i + Len(p)])}

NameCaptureOf(toks, phrases) ==
    LET i == Min(NamePositions(toks, phrases))
        p == CHOOSE q \in phrases :
                PhraseAt(toks, i, q) /\ i + Len(q) <= Len(toks) /\ IsAlpha(toks[i + Len(q)])
    IN toks[i + Len(p)].w

\* name_match.group(1) of the first pattern that matches, None without one.
\* The third pattern, ^(?:I'm|I am) ([A-Za-z]+), matches only where the first does.
NameCapture(toks) ==
    IF NamePositions(toks, NamePhrases1) # {} THEN NameCaptureOf(toks, NamePhrases1)
    ELSE IF NamePositions(toks, NamePhrases2) # {} THEN NameCaptureOf(toks, NamePhrases2)
    ELSE IF 1 \in NamePositions(toks, {<<"i", "am">>, <<"i'm">>})
         THEN NameCaptureOf(toks, {<<"i", "am">>, <<"i'm">>})
    ELSE None

\* process_input: re.search(r'my name is (\w+)', user_input.lower()), for a
\* name made of letters
ProcessNamePositions(toks) ==
    {i \in 1..Len(toks) :
        /\ PhraseAt(toks, i, <<"my", "name", "is">>)
        /\ i + 3 <= Len(toks)
        /\ IsAlpha(toks[i + 3])}

\* analysis_keywords
AnalysisKeywords ==
    {<<"analyze">>, <<"analysis">>, <<"how", "am", "i", "doing">>, <<"budget">>,
     <<"review">>, <<"overview">>, <<"summary">>, <<"status">>}

HasAnalysisKeyword(toks) == \E p \in AnalysisKeywords : ContainsPhrase(toks, p)

\* greetings of handle_greeting
GreetingWords == {"hi", "hello", "hey", "hola", "greetings"}

HasGreeting(toks) == \E i \in 1..Len(toks) : IsWordTok(toks[i]) /\ Lower(toks[i].w) \in GreetingWords

\* capability_pattern
CapabilityPhrases ==
    {<<"what", "can", "you", "do">>, <<"capabilities">>, <<"features">>, <<"help", "me", "with">>,
     <<"what", "do", "you", "do">>, <<"how", "can", "you", "help">>}

IsCapabilityQuery(toks) == \E p \in CapabilityPhrases : ContainsPhrase(toks, p)

--------------------------------------------------------------------------
\* Python values

\* A dict, in insertion order: a sequence of (key, value) items.
DictKeys(d) == {d[i].key : i \in 1..Len(d)}
DictHas(d, k) == k \in DictKeys(d)
DictGet(d, k) == d[CHOOSE i \in 1..Len(d) : d[i].key = k].value
DictValues(d) == [i \in 1..Len(d) |-> d[i].value]

\* d[k] = v: an existing key keeps its place, a new key goes last.
DictSet(d, k, v) ==
    IF DictHas(d, k)
    THEN [i \in 1..Len(d) |-> IF d[i].key = k THEN [key |-> k, value |-> v] ELSE d[i]]
    ELSE Append(d, [key |-> k, value |-> v])

\* sum(values)
RECURSIVE Sum(_)
Sum(vals) == IF vals = <<>> THEN 0 ELSE Head(vals) + Sum(Tail(vals))

\* random.choice(seq) for a draw r of the random source.
Choice(n, r) == (r % n) + 1

\* The digit groups "{:,}" writes for n >= 0: 1234567 is <<1, 234, 567>>.
RECURSIVE ThousandsGroups(_)
ThousandsGroups(n) ==
    IF n < 1000 THEN <<n>> ELSE Append(ThousandsGroups(n \div 1000), n % 1000)

\* f"{x:,.0f}" and f"{x:,.2f}" for a whole number x; Blank where a reply has no such number.
Format0(x) == [neg |-> x < 0, groups |-> ThousandsGroups(IF x < 0 THEN -x ELSE x), frac |-> <<>>]
Format2(x) == [neg |-> x < 0, groups |-> ThousandsGroups(IF x < 0 THEN -x ELSE x), frac |-> <<0, 0>>]
Blank == [neg |-> FALSE, groups |-> <<>>, frac |-> <<>>]

--------------------------------------------------------------------------
\* extract_financial_info, on the facts f = [user_data, expenses, user_name]

\* An income rule that adds the stated income to the one it holds.
ExtractIncomeAccumulate(user_data, toks) ==
    IF IncomePositions(toks) = {} THEN user_data
    ELSE DictSet(user_data, "income",
                 (IF DictHas(user_data, "income") THEN DictGet(user_data, "income") ELSE 0)
                 + AmountAt(toks, IncomeAt(toks, Min(IncomePositions(toks)))))

\* self.user_data["income"] = float(income_value)
ExtractIncome(user_data, toks) ==
    IF IncomePositions(toks) = {} THEN user_data
    ELSE DictSet(user_data, "income", AmountAt(toks, IncomeAt(toks, Min(IncomePositions(toks)))))

\* A ledger that adds a restated amount to the one it holds.
ApplyExpenseAccumulate(expenses, m) ==
    DictSet(expenses, m.category,
            IF DictHas(expenses, m.category) THEN DictGet(expenses, m.category) + m.amount
            ELSE m.amount)

\* self.expenses[category] = amount
ApplyExpense(expenses, m) == DictSet(expenses, m.category, m.amount)

\* for match in expense_matches: ...
RECURSIVE ApplyExpenses(_, _)
ApplyExpenses(expenses, ms) ==
    IF ms = <<>> THEN expenses
    ELSE ApplyExpenses(ApplyExpense(expenses, Head(ms)), Tail(ms))

\* self.user_data["savings_goal"] = float(savings_value); break
ExtractSavings(user_data, toks) ==
    IF SavingsAmountPos(toks) = 0 THEN user_data
    ELSE DictSet(user_data, "savings_goal", AmountAt(toks, SavingsAmountPos(toks)))

\* A name rule without the test that the name is unset.
ExtractNameOverwrite(user_name, toks) ==
    IF NameCapture(toks) = None THEN user_name ELSE Capitalize(NameCapture(toks))

\* if not self.user_name: ... self.user_name = name_match.group(1).capitalize()
ExtractName(user_name, toks) ==
    IF user_name # None THEN user_name
    ELSE IF NameCapture(toks) = None THEN user_name
    ELSE Capitalize(NameCapture(toks))

ExtractFinancialInfoOn(f, toks) ==
    [user_data |-> ExtractSavings(ExtractIncome(f.user_data, toks), toks),
     expenses |-> ApplyExpenses(f.expenses, ExpenseMatches(toks)),
     user_name |-> ExtractName(f.user_name, toks)]

--------------------------------------------------------------------------
\* Reply texts.  A reply is the template it was rendered from (category and
\* variant) with the values bound to the placeholders that template has.

NoAdvice ==
    [kind |-> "none", variant |-> 0, category |-> <<>>, percent |-> -1, amount |-> Blank,
     recommended |-> "", status |-> "", goal |-> Blank, savings_goal |-> Blank]

NoReply ==
    [src |-> "none", category |-> "none", variant |-> 0, name |-> None, income |-> Blank,
     amount |-> Blank, key |-> <<>>, total |-> Blank, remaining |-> Blank, goal |-> Blank,
     advice |-> NoAdvice, groups |-> <<>>]

\* The numbers of variants of response_templates and advice_templates.
NumIncomeAdded == 2
NumExpenseAdded == 2
NumSavingsGoalAdded == 2
NumBudgetAnalysis == 2
NumGeneral == 4
NumAdvice == 9

\* The placeholders of advice_templates[v - 1].
AdviceFields(v) ==
    CASE v = 1 -> {"category", "percent"}
      [] v = 2 -> {"amount", "category", "percent", "recommended"}
      [] v = 3 -> {"category", "goal"}
      [] v = 4 -> {"category", "status", "recommended"}
      [] v = 5 -> {"savings_goal", "category", "amount"}
      [] v = 6 -> {"category"}
      [] OTHER -> {}

\* f"{highest_percent:.1f}", in tenths of a percent (the nearest tenth; the
\* amounts of the utterances give no share that lies halfway between two tenths).
PercentTenths(amount, income) == (2000 * amount + income) \div (2 * income)

Max(S) == CHOOSE x \in S : \A y \in S : x >= y

\* A maximum that keeps the last item of the highest value.
HighestCategoryLast(expenses) ==
    expenses[Max({i \in 1..Len(expenses) : \A j \in 1..Len(expenses) :
                     expenses[j].value <= expenses[i].value})]

\* max(self.expenses.items(), key=lambda x: x[1]): the first item of the highest value.
HighestCategory(expenses) ==
    expenses[Min({i \in 1..Len(expenses) : \A j \in 1..Len(expenses) :
                     expenses[j].value <= expenses[i].value})]

\* advice_template.format(category=..., amount=..., percent=..., recommended="15-20",
\* status=..., goal=..., savings_goal=...), for income # 0.
RenderAdvice(v, user_data, expenses) ==
    LET income == DictGet(user_data, "income")
        highest == HighestCategory(expenses)
        has(x) == x \in AdviceFields(v)
    IN [kind |-> "template",
        variant |-> v,
        category |-> IF has("category") THEN highest.key ELSE <<>>,
        percent |-> IF has("percent") THEN PercentTenths(highest.value, income) ELSE -1,
        amount |-> IF has("amount") THEN Format0(highest.value) ELSE Blank,
        recommended |-> IF has("recommended") THEN "15-20" ELSE "",
        status |-> IF ~has("status") THEN ""
                   ELSE IF 100 * highest.value > 30 * income THEN "high" ELSE "reasonable",
        goal |-> IF has("goal") THEN Format0((income * 2) \div 10) ELSE Blank,
        savings_goal |-> IF ~has("savings_goal") THEN Blank
                         ELSE IF DictHas(user_data, "savings_goal")
                              THEN Format0(DictGet(user_data, "savings_goal"))
                              ELSE Format0((income * 2) \div 10)]

\* "Consider tracking your expenses by category to get more specific advice."
GenericAdvice == [NoAdvice EXCEPT !.kind = "generic"]

--------------------------------------------------------------------------
\* generate_contextual_response on the session s = [user_data, expenses,
\* conversation_history, user_name], with the draws rnd of the random source.
\* The result: the branch taken (category), whether it raised, the reply
\* returned, and user_data as the call leaves it.

GcrResult(category, raised, reply, user_data) ==
    [category |-> category, raised |-> raised, reply |-> reply, user_data |-> user_data]

IsRecentIncome(s) == DictHas(s.user_data, "income") /\ Len(s.conversation_history) < 3

IsAnalysisRequest(s, toks) == HasAnalysisKeyword(toks) /\ DictHas(s.user_data, "income")

RenameBranch(s, toks, rnd) ==
    GcrResult("rename", FALSE, [NoReply EXCEPT !.src = "fallback", !.category = "rename"], s.user_data)

IdentityBranch(s, toks, rnd) ==
    GcrResult("identity", FALSE, [NoReply EXCEPT !.src = "fallback", !.category = "identity"], s.user_data)

SavingsBranch(s, toks, rnd) ==
    LET goal == AmountAt(toks, SavingsAmountPos(toks))
    IN GcrResult("savings_goal_added", FALSE,
                 [NoReply EXCEPT !.src = "fallback", !.category = "savings_goal_added",
                                 !.variant = Choice(NumSavingsGoalAdded, rnd[1]),
                                 !.goal = Format0(goal)],
                 DictSet(s.user_data, "savings_goal", goal))

IncomeBranch(s, toks, rnd) ==
    GcrResult("income_added", FALSE,
              [NoReply EXCEPT !.src = "fallback", !.category = "income_added",
                              !.variant = Choice(NumIncomeAdded, rnd[1]),
                              !.income = Format0(DictGet(s.user_data, "income"))],
              s.user_data)

ExpenseBranch(s, toks, rnd) ==
    LET m == ExpenseAt(toks, Min({i \in 1..Len(toks) : ExpenseAt(toks, i).amt # 0}))
        v == Choice(NumExpenseAdded, rnd[1])
    IN GcrResult("expense_added", FALSE,
                 [NoReply EXCEPT !.src = "fallback", !.category = "expense_added",
                                 !.variant = v,
                                 !.amount = Format0(AmountAt(toks, m.amt)),
                                 !.key = CategoryKey(toks, m.from, m.to),
                                 !.total = IF v = 2 THEN Format0(Sum(DictValues(s.expenses))) ELSE Blank],
                 s.user_data)

AnalysisBranch(s, toks, rnd) ==
    LET income == DictGet(s.user_data, "income")
        total_expenses == Sum(DictValues(s.expenses))
        remaining == income - total_expenses
        withAdvice == s.expenses # <<>>
        advice == IF withAdvice
                  THEN RenderAdvice(Choice(NumAdvice, rnd[1]), s.user_data, s.expenses)
                  ELSE GenericAdvice
        v == Choice(NumBudgetAnalysis, IF withAdvice THEN rnd[2] ELSE rnd[1])
    IN IF withAdvice /\ income = 0
       THEN \* highest_category[1] / income: ZeroDivisionError, not among (ValueError, TypeError)
            GcrResult("budget_analysis", TRUE, NoReply, s.user_data)
       ELSE GcrResult("budget_analysis", FALSE,
                      [NoReply EXCEPT !.src = "fallback", !.category = "budget_analysis",
                                      !.variant = v,
                                      !.income = Format0(income),
                                      !.total = Format0(total_expenses),
                                      !.remaining = Format0(remaining),
                                      !.advice = advice],
                      s.user_data)

DefaultBranch(s, toks, rnd) ==
    GcrResult("general", FALSE,
              [NoReply EXCEPT !.src = "fallback", !.category = "general",
                              !.variant = Choice(NumGeneral, rnd[1]),
                              !.name = s.user_name],
              s.user_data)

\* A policy that tests for an expense statement before the recent income.
GenerateContextualResponseExpenseFirst(s, toks, rnd) ==
    IF IsRenameAttempt(toks, LocalAliases) THEN RenameBranch(s, toks, rnd)
    ELSE IF IsIdentityQuery(toks) THEN IdentityBranch(s, toks, rnd)
    ELSE IF SavingsAmountPos(toks) # 0 THEN SavingsBranch(s, toks, rnd)
    ELSE IF ExpenseMatches(toks) # <<>> THEN ExpenseBranch(s, toks, rnd)
    ELSE IF IsRecentIncome(s) THEN IncomeBranch(s, toks, rnd)
    ELSE IF IsAnalysisRequest(s, toks) THEN AnalysisBranch(s, toks, rnd)
    ELSE DefaultBranch(s, toks, rnd)

GenerateContextualResponseOn(s, toks, rnd) ==
    IF IsRenameAttempt(toks, LocalAliases) THEN RenameBranch(s, toks, rnd)
    ELSE IF IsIdentityQuery(toks) THEN IdentityBranch(s, toks, rnd)
    ELSE IF SavingsAmountPos(toks) # 0 THEN SavingsBranch(s, toks, rnd)
    ELSE IF IsRecentIncome(s) THEN IncomeBranch(s, toks, rnd)
    ELSE IF ExpenseMatches(toks) # <<>> THEN ExpenseBranch(s, toks, rnd)
    ELSE IF IsAnalysisRequest(s, toks) THEN AnalysisBranch(s, toks, rnd)
    ELSE DefaultBranch(s, toks, rnd)

--------------------------------------------------------------------------
\* The chatbot object and what its caller observes

\* self.capabilities as the constructor sets it
StaticCapabilities ==
    <<"Create and manage monthly budgets",
      "Plan and optimize travel budgets",
      "Track travel expenses and savings",
      "Set travel savings goals",
      "Analyze spending patterns for travel",
      "Calculate travel expense ratios",
      "Suggest travel cost-saving strategies",
      "Help with travel budget management",
      "Provide up-to-date FD rates from major banks",
      "Compare various banking products and services",
      "Offer information about loan interest rates",
      "Explain different types of bank accounts and their benefits">>

VARIABLES
    model,                  \* self.model and self.chat are set (the constructor reached the service)
    user_data,              \* self.user_data
    expenses,               \* self.expenses
    conversation_history,   \* self.conversation_history
    user_name,              \* self.user_name
    capabilities,           \* self.capabilities
    last_greeting_time,     \* self.last_greeting_time, in seconds; -1 is None
    now,                    \* the latest reading of datetime.now(), in seconds
    last                    \* the latest call: its operation, its argument, its outcome and
                            \* the prompt it passed to chat.send_message

vars == <<model, user_data, expenses, conversation_history, user_name, capabilities,
          last_greeting_time, now, last>>

UserTurn(toks) == [role |-> "user", text |-> toks, reply |-> NoReply]
AssistantTurn(reply) == [role |-> "assistant", text |-> <<>>, reply |-> reply]

\* self.conversation_history[-5:]
LastFive(h) == IF Len(h) <= 5 THEN h ELSE SubSeq(h, Len(h) - 4, Len(h))

\* format_conversation_history
FormatConversationHistory(h) == [start |-> h = <<>>, lines |-> LastFive(h)]

\* category.title()
Title(key) == [j \in 1..Len(key) |-> Capitalize(key[j])]

\* format_financial_context
FormatFinancialContext(s) ==
    [name |-> s.user_name,
     data |-> [i \in 1..Len(s.user_data) |->
                  [label |-> IF s.user_data[i].key = "income" THEN "Monthly Income" ELSE "Savings Goal",
                   value |-> Format2(s.user_data[i].value)]],
     expenses |-> [i \in 1..Len(s.expenses) |->
                      [label |-> Title(s.expenses[i].key), value |-> Format2(s.expenses[i].value)]]]

NoPrompt ==
    [sent |-> FALSE, context |-> [start |-> TRUE, lines |-> <<>>],
     financial_context |-> [name |-> None, data |-> <<>>, expenses |-> <<>>],
     bank_info |-> FALSE, user_input |-> <<>>, starter |-> 0]

NumConversationStarters == 10

Session == [user_data |-> user_data, expenses |-> expenses,
            conversation_history |-> conversation_history, user_name |-> user_name]

\* What a call of get_ai_response leaves: the session, the prompt it sent
\* (NoPrompt when it sent none), and its outcome.
Outcome(s, p, raised, category, reply) ==
    [session |-> s, prompt |-> p, raised |-> raised, category |-> category, reply |-> reply]

\* The except branch and the else branch of get_ai_response: the local reply,
\* appended to the history as an assistant turn.  An error of
\* generate_contextual_response leaves the handler.
FallbackOn(s, p, toks, rnd) ==
    LET g == GenerateContextualResponseOn(s, toks, rnd)
        s1 == [s EXCEPT !.user_data = g.user_data]
    IN IF g.raised THEN Outcome(s1, p, TRUE, g.category, NoReply)
       ELSE Outcome([s1 EXCEPT !.conversation_history = Append(@, AssistantTurn(g.reply))],
                    p, FALSE, g.category, g.reply)

RemoteReply == [NoReply EXCEPT !.src = "remote", !.category = "remote"]

\* if len(self.conversation_history) > 10: ... = self.conversation_history[-5:]
Truncate(h) == IF Len(h) > 10 THEN LastFive(h) ELSE h

\* The try block of get_ai_response; sendOk says whether chat.send_message and
\* response.text come back.
RemoteOn(s, toks, rnd, sendOk) ==
    IF IsRenameAttempt(toks, RemoteAliases)
    THEN Outcome(s, NoPrompt, FALSE, "rename", [NoReply EXCEPT !.src = "guard", !.category = "rename"])
    ELSE IF IsIdentityQuery(toks)
    THEN Outcome(s, NoPrompt, FALSE, "identity", [NoReply EXCEPT !.src = "guard", !.category = "identity"])
    ELSE
      LET p == [sent |-> TRUE,
                context |-> FormatConversationHistory(s.conversation_history),
                financial_context |-> FormatFinancialContext(s),
                bank_info |-> HasBankKeyword(toks),
                user_input |-> toks,
                starter |-> Choice(NumConversationStarters, rnd[3])]
          s1 == [s EXCEPT !.conversation_history = Truncate(Append(@, UserTurn(toks)))]
      IN IF sendOk
         THEN LET f == ExtractFinancialInfoOn(
                          [user_data |-> s1.user_data, expenses |-> s1.expenses,
                           user_name |-> s1.user_name], toks)
              IN Outcome([user_data |-> f.user_data, expenses |-> f.expenses,
                          conversation_history |->
                              Append(s1.conversation_history, AssistantTurn(RemoteReply)),
                          user_name |-> f.user_name],
                         p, FALSE, "remote", RemoteReply)
         ELSE FallbackOn(s1, p, toks, rnd)

GetAiResponseOn(s, hasModel, toks, rnd, sendOk) ==
    IF hasModel THEN RemoteOn(s, toks, rnd, sendOk) ELSE FallbackOn(s, NoPrompt, toks, rnd)

\* The latest call; client is the conversation a request of app.chat came from.
NoCall ==
    [op |-> "init", client |-> None, input |-> <<>>, raised |-> FALSE, category |-> "none",
     reply |-> NoReply, prompt |-> NoPrompt]

\* The session and observations after a call for conversation c whose outcome is o.
CommitFor(op, c, toks, o) ==
    /\ user_data' = o.session.user_data
    /\ expenses' = o.session.expenses
    /\ conversation_history' = o.session.conversation_history
    /\ user_name' = o.session.user_name
    /\ last' = [NoCall EXCEPT !.op = op, !.client = c, !.input = toks, !.raised = o.raised,
                               !.category = o.category, !.reply = o.reply, !.prompt = o.prompt]

Commit(op, toks, o) == CommitFor(op, None, toks, o)

Init ==
    /\ model \in BOOLEAN
    /\ user_data = <<>>
    /\ expenses = <<>>
    /\ conversation_history = <<>>
    /\ user_name = None
    /\ capabilities = StaticCapabilities
    /\ last_greeting_time = -1
    /\ now = 0
    /\ last = NoCall

\* chatbot.get_ai_response(user_input), as app.chat calls it
GetAiResponse(toks, rnd, sendOk) ==
    /\ \E o \in {GetAiResponseOn(Session, model, toks, rnd, sendOk)} :
          Commit("get_ai_response", toks, o)
    /\ UNCHANGED <<model, capabilities, last_greeting_time, now>>

\* A session of its own for each conversation: what the object holds is
\* dropped when a request of another conversation arrives.
ChatSessionOwn(c) ==
    IF last.client \in {None, c} THEN Session
    ELSE [user_data |-> <<>>, expenses |-> <<>>, conversation_history |-> <<>>, user_name |-> None]

\* app.py: chatbot = SmartBudgetAIChatbot() at import; chat() passes the request
\* of any conversation c to that one object.
ChatSession(c) == Session

\* app.chat for a request of conversation c with a non-empty input; an error
\* of get_ai_response becomes the 500 answer.
Chat(c, toks, rnd, sendOk) ==
    /\ \E o \in {GetAiResponseOn(ChatSession(c), model, toks, rnd, sendOk)} :
          CommitFor("chat", c, toks, o)
    /\ UNCHANGED <<model, capabilities, last_greeting_time, now>>

\* process_input: name_match.group(1).title() of 'my name is (\w+)' on the lower-cased input
ProcessName(name, toks) ==
    IF name # None THEN name
    ELSE IF ProcessNamePositions(toks) = {} THEN name
    ELSE Capitalize(toks[Min(ProcessNamePositions(toks)) + 3].w)

ProcessInput(toks, rnd, sendOk) ==
    /\ \E o \in {GetAiResponseOn([Session EXCEPT !.user_name = ProcessName(user_name, toks)],
                                  model, toks, rnd, sendOk)} :
          Commit("process_input", toks, o)
    /\ UNCHANGED <<model, capabilities, last_greeting_time, now>>

ExtractFinancialInfo(toks) ==
    \E f \in {ExtractFinancialInfoOn(
                  [user_data |-> user_data, expenses |-> expenses, user_name |-> user_name], toks)} :
       /\ user_data' = f.user_data
       /\ expenses' = f.expenses
       /\ user_name' = f.user_name
       /\ last' = [NoCall EXCEPT !.op = "extract_financial_info", !.input = toks]
       /\ UNCHANGED <<model, conversation_history, capabilities, last_greeting_time, now>>

GenerateContextualResponse(toks, rnd) ==
    \E g \in {GenerateContextualResponseOn(Session, toks, rnd)} :
       /\ user_data' = g.user_data
       /\ last' = [NoCall EXCEPT !.op = "generate_contextual_response", !.input = toks,
                                  !.raised = g.raised, !.category = g.category, !.reply = g.reply]
       /\ UNCHANGED <<model, expenses, conversation_history, user_name, capabilities,
                      last_greeting_time, now>>

--------------------------------------------------------------------------
\* handle_greeting

CooldownSeconds == 300
SecondsPerDay == 86400
NumGreetings == 4

\* timedelta.seconds of a non-negative difference of d seconds: the seconds
\* within the day, the days being held by timedelta.days.
TimedeltaSeconds(d) == d % SecondsPerDay

\* self.last_greeting_time is None or (current_time - self.last_greeting_time).seconds > 300
CooldownExpired(last_time, current_time) ==
    last_time = -1 \/ TimedeltaSeconds(current_time - last_time) > CooldownSeconds

\* handle_greeting(user_input) with datetime.now() reading t
HandleGreeting(toks, t, r) ==
    /\ t >= now
    /\ now' = t
    /\ IF HasGreeting(toks)
       THEN IF CooldownExpired(last_greeting_time, t)
            THEN /\ last_greeting_time' = t
                 /\ last' = [NoCall EXCEPT !.op = "handle_greeting", !.input = toks,
                                            !.category = "greeting",
                                            !.reply = [NoReply EXCEPT !.src = "greeting",
                                                                      !.category = "greeting",
                                                                      !.variant = Choice(NumGreetings, r)]]
            ELSE /\ last_greeting_time' = last_greeting_time
                 /\ last' = [NoCall EXCEPT !.op = "handle_greeting", !.input = toks,
                                            !.category = "filler",
                                            !.reply = [NoReply EXCEPT !.src = "greeting",
                                                                      !.category = "filler"]]
       ELSE /\ last_greeting_time' = last_greeting_time
            /\ last' = [NoCall EXCEPT !.op = "handle_greeting", !.input = toks]
    /\ UNCHANGED <<model, user_data, expenses, conversation_history, user_name, capabilities>>

--------------------------------------------------------------------------
\* handle_capabilities

\* self.capabilities[:4], self.capabilities[4:8]
BudgetCapabilities(caps) == SubSeq(caps, 1, 4)
TravelCapabilities(caps) == SubSeq(caps, 5, 8)

\* A last slice that starts one item late.
BankingCapabilitiesLate(caps) == SubSeq(caps, 10, Len(caps))

\* self.capabilities[8:]
BankingCapabilities(caps) == SubSeq(caps, 9, Len(caps))

\* The response: the three headers, each followed by the lines of its group.
CapabilitiesReply(caps) ==
    [NoReply EXCEPT !.src = "capabilities", !.category = "capabilities",
                    !.groups = <<[header |-> "Budget Management", items |-> BudgetCapabilities(caps)],
                                 [header |-> "Travel Finance", items |-> TravelCapabilities(caps)],
                                 [header |-> "Banking Information", items |-> BankingCapabilities(caps)]>>]

\* handle_capabilities(user_input); None is returned without a match.
HandleCapabilities(toks) ==
    /\ last' = IF IsCapabilityQuery(toks)
               THEN [NoCall EXCEPT !.op = "handle_capabilities", !.input = toks,
                                   !.category = "capabilities",
                                   !.reply = CapabilitiesReply(capabilities)]
               ELSE [NoCall EXCEPT !.op = "handle_capabilities", !.input = toks]
    /\ UNCHANGED <<model, user_data, expenses, conversation_history, user_name, capabilities,
                   last_greeting_time, now>>

--------------------------------------------------------------------------
\* Bounds and inputs

\* Calls that add turns are taken while the history is shorter than this.
MaxHistory == 5
MaxHistoryLong == 13
MaxHistoryPolicy == 3
MaxHistoryExtract == 2
MaxHistoryAnalysis == 3
MaxHistoryShared == 5
MaxHistoryCapabilities == 2

Utterances ==
    {U_rename, U_alias, U_identity, U_guardfact, U_savings, U_income0, U_income, U_food,
     U_rent, U_restate, U_budget, U_thanks, U_name, U_name2}

\* Draws of the random source, one for each random.choice of a call.
Draws == {<<0, 0, 0>>, <<1, 1, 1>>}

\* The conversation app.chat drives.
ChatUtterances == {U_guardfact, U_income0, U_food, U_budget, U_thanks}

\* Conversations that run long.
LongUtterances == {U_thanks, U_identity}

\* Statements of facts.
FactUtterances == {U_savings, U_income, U_food, U_rent, U_restate, U_name, U_name2}
NameUtterances == {U_name, U_name2}
PolicyFactUtterances == {U_income0, U_income, U_food}

GreetingUtterances == {U_hello, U_thanks}

\* Two conversations behind the one service: A states facts, B states none.
Conversations == {"A", "B"}
ConversationUtterances(c) == IF c = "A" THEN {U_name, U_income, U_food} ELSE {U_thanks, U_budget}

\* Questions about the capabilities, and utterances that are none.
CapabilityUtterances == {U_caps, U_features, U_thanks, U_budget}
CapabilityFactUtterances == {U_name, U_income, U_food}

\* Facts a budget analysis reads: incomes (one below the expenses) and three
\* expenses of which two are equal.
AnalysisFactUtterances == {U_income0, U_income5, U_income, U_food, U_rent, U_travel}
\* Draws that choose every advice template and every analysis template.
AnalysisDraws == {<<a, a, 0>> : a \in 0..(NumAdvice - 1)}
\* Clock readings around the cooldown and a day later.
ClockReadings ==
    {0, 100, CooldownSeconds, CooldownSeconds + 1, 700,
     SecondsPerDay + 100, SecondsPerDay + CooldownSeconds + 1, SecondsPerDay + 900}

--------------------------------------------------------------------------
\* Specifications

\* The deployed service: app.chat passes each request to get_ai_response.
DoGetAiResponse ==
    /\ Len(conversation_history) < MaxHistory
    /\ \E toks \in ChatUtterances, sendOk \in BOOLEAN : GetAiResponse(toks, <<0, 0, 0>>, sendOk)

DoProcessInput ==
    /\ Len(conversation_history) < MaxHistory
    /\ \E sendOk \in BOOLEAN : ProcessInput(U_name, <<0, 0, 0>>, sendOk)

Next ==
    \/ DoGetAiResponse
    \/ DoProcessInput

Spec == Init /\ [][Next]_vars

\* Long conversations.
LongGetAiResponse ==
    /\ Len(conversation_history) < MaxHistoryLong
    /\ \E toks \in LongUtterances, sendOk \in BOOLEAN : GetAiResponse(toks, <<0, 0, 0>>, sendOk)

NextLong == LongGetAiResponse

SpecLong == Init /\ [][NextLong]_vars

\* The greeting handler under a running clock.
DoHandleGreeting ==
    \E toks \in GreetingUtterances, t \in ClockReadings, r \in {0, 1} : HandleGreeting(toks, t, r)

NextGreeting == DoHandleGreeting

SpecGreeting == Init /\ [][NextGreeting]_vars

\* The extractor called on statements of facts, and process_input.
ExtractExtractFinancialInfo == \E toks \in FactUtterances : ExtractFinancialInfo(toks)

ExtractProcessInput ==
    /\ Len(conversation_history) < MaxHistoryExtract
    /\ \E toks \in NameUtterances, sendOk \in BOOLEAN : ProcessInput(toks, <<0, 0, 0>>, sendOk)

NextExtract ==
    \/ ExtractExtractFinancialInfo
    \/ ExtractProcessInput

SpecExtract == Init /\ [][NextExtract]_vars

\* The dialog policy on every utterance, in sessions with facts and turns.
PolicyGenerateContextualResponse ==
    \E toks \in Utterances, rnd \in Draws : GenerateContextualResponse(toks, rnd)

PolicyExtractFinancialInfo == \E toks \in PolicyFactUtterances : ExtractFinancialInfo(toks)

PolicyGetAiResponse ==
    /\ Len(conversation_history) < MaxHistoryPolicy
    /\ \E sendOk \in BOOLEAN : GetAiResponse(U_thanks, <<0, 0, 0>>, sendOk)

NextPolicy ==
    \/ PolicyGenerateContextualResponse
    \/ PolicyExtractFinancialInfo
    \/ PolicyGetAiResponse

SpecPolicy == Init /\ [][NextPolicy]_vars

\* Budget analyses: requests for a summary in sessions that hold facts and
\* enough turns for the income acknowledgment to have passed.
AnalysisExtractFinancialInfo == \E toks \in AnalysisFactUtterances : ExtractFinancialInfo(toks)

AnalysisGetAiResponse ==
    /\ Len(conversation_history) < MaxHistoryAnalysis
    /\ GetAiResponse(U_thanks, <<0, 0, 0>>, TRUE)

AnalysisGenerateContextualResponse ==
    \E rnd \in AnalysisDraws : GenerateContextualResponse(U_budget, rnd)

NextAnalysis ==
    \/ AnalysisExtractFinancialInfo
    \/ AnalysisGetAiResponse
    \/ AnalysisGenerateContextualResponse

SpecAnalysis == Init /\ [][NextAnalysis]_vars

\* The deployed service with the requests of two conversations interleaved.
SharedChat ==
    /\ Len(conversation_history) < MaxHistoryShared
    /\ \E c \in Conversations, sendOk \in BOOLEAN :
          \E toks \in ConversationUtterances(c) : Chat(c, toks, <<0, 0, 0>>, sendOk)

NextShared == SharedChat

SpecShared == Init /\ [][NextShared]_vars

\* The capabilities handler in sessions that hold facts, turns and a greeting time.
CapabilitiesHandleCapabilities == \E toks \in CapabilityUtterances : HandleCapabilities(toks)

CapabilitiesExtractFinancialInfo ==
    \E toks \in CapabilityFactUtterances : ExtractFinancialInfo(toks)

CapabilitiesGetAiResponse ==
    /\ Len(conversation_history) < MaxHistoryCapabilities
    /\ GetAiResponse(U_thanks, <<0, 0, 0>>, TRUE)

CapabilitiesHandleGreeting == \E t \in {0, CooldownSeconds + 1} : HandleGreeting(U_hello, t, 0)

NextCapabilities ==
    \/ CapabilitiesHandleCapabilities
    \/ CapabilitiesExtractFinancialInfo
    \/ CapabilitiesGetAiResponse
    \/ CapabilitiesHandleGreeting

SpecCapabilities == Init /\ [][NextCapabilities]_vars

--------------------------------------------------------------------------
\* Properties

Facts == [user_data |-> user_data, expenses |-> expenses, user_name |-> user_name]

IsReplyCall == last.op \in {"get_ai_response", "process_input"}

\* The latest call answered from generate_contextual_response.
AnsweredLocally == IsReplyCall /\ ~last.raised /\ last.reply.src = "fallback"

\* C1: get_ai_response and generate_contextual_response always return a reply
\* text and raise no error to the caller, whatever the utterance and the
\* session (income 0 with expenses recorded, a failed remote call).
C1_ReplyNeverFails ==
    last.op \in {"get_ai_response", "process_input", "generate_contextual_response"}
        => ~last.raised /\ last.reply # NoReply

\* C2: a reply of the local fallback extends the history by one user turn
\* holding the utterance and then one assistant turn holding the returned
\* text, so the history alternates user/assistant.
C2_FallbackAppendsUserThenAssistant ==
    AnsweredLocally =>
        LET h == conversation_history
        IN /\ Len(h) >= 2
           /\ h[Len(h) - 1] = UserTurn(last.input)
           /\ h[Len(h)] = AssistantTurn(last.reply)
           /\ \A i \in 1..(Len(h) - 1) : h[i].role # h[i + 1].role

\* C3: after a fallback reply to an utterance the session holds every fact
\* the extractor yields for it: running the extractor on it adds nothing.
C3_FallbackRunsExtractor ==
    AnsweredLocally => ExtractFinancialInfoOn(Facts, last.input) = Facts

\* C4: in every mode the history never holds more than 11 turns: a call
\* either extends it, or finds it grown past 10 turns with the new user turn
\* and keeps the 5 most recent turns (the last 4 it held and the new one).
C4_HistoryPruned ==
    [][LET h == conversation_history
           g == conversation_history'
       IN /\ Len(g) <= 11
          /\ \/ Len(g) >= Len(h) /\ SubSeq(g, 1, Len(h)) = h
             \/ /\ Len(h) + 1 > 10
                /\ Len(g) >= 5
                /\ SubSeq(g, 1, 4) = SubSeq(h, Len(h) - 3, Len(h))]_vars

\* C5: once user_name holds a value no later call changes it.
C5_NameSetOnce == [][user_name # None => user_name' = user_name]_vars

\* A name is set and the latest call matched a name pattern on another name.
C5_Witness ==
    /\ last.op \in {"extract_financial_info", "process_input"}
    /\ user_name # None
    /\ NameCapture(last.input) # None
    /\ Capitalize(NameCapture(last.input)) # user_name

\* C6: a greeting at d seconds after the last full greeting gets the filler
\* when d <= 300 and a full greeting, with the timestamp reset to now,
\* whenever d > 300 (also beyond one day) or when there was no greeting before.
C6_GreetingCooldown ==
    [][(last'.op = "handle_greeting" /\ HasGreeting(last'.input)) =>
          IF last_greeting_time = -1 \/ now' - last_greeting_time > CooldownSeconds
          THEN last'.category = "greeting" /\ last_greeting_time' = now'
          ELSE last'.category = "filler" /\ last_greeting_time' = last_greeting_time]_vars

\* The remote call of the latest get_ai_response failed.
RemoteFailed == IsReplyCall /\ model /\ last.prompt.sent /\ last.reply.src # "remote"

\* C7: without a model, or when the remote call fails, get_ai_response answers
\* the utterance from generate_contextual_response and records the reply as
\* an assistant turn.
C7_FailureFallsBack ==
    (IsReplyCall /\ (~model \/ RemoteFailed)) =>
        /\ ~last.raised
        /\ last.reply.src = "fallback"
        /\ conversation_history # <<>>
        /\ conversation_history[Len(conversation_history)] = AssistantTurn(last.reply)

\* C8: with the remote service reachable every utterance is run through
\* extract_financial_info, those answered by the rename deflection or the
\* identity reply too, and the prompt's financial context is built from the
\* session facts.
C8_RemoteRunsExtractor ==
    [][(model /\ last'.op = "get_ai_response" /\ last'.reply.src \in {"remote", "guard"}) =>
          /\ Facts' = ExtractFinancialInfoOn(Facts, last'.input)
          /\ last'.prompt.sent => last'.prompt.financial_context = FormatFinancialContext(Session)]_vars

\* The turns in the history when the latest call ran generate_contextual_response.
TurnsSeen ==
    IF last.op = "generate_contextual_response" \/ last.raised
    THEN Len(conversation_history)
    ELSE Len(conversation_history) - 1

PolicyRan ==
    \/ last.op = "generate_contextual_response"
    \/ IsReplyCall /\ (last.raised \/ last.reply.src = "fallback")

\* C9: the reply category is the first, in the order rename attempt, identity
\* query, savings goal, recent income (income set, fewer than 3 turns),
\* expense, budget analysis (keyword and income set), whose condition holds,
\* and the default only when none holds.
C9_PriorityOrder ==
    PolicyRan =>
        LET u == last.input
            conds == <<RenameCapture(u) # None /\ Lower(RenameCapture(u)) \notin LocalAliases,
                       \E p \in IdentityPhrases : ContainsPhrase(u, p),
                       SavingsPositions1(u) \cup SavingsPositions2(u) # {},
                       DictHas(user_data, "income") /\ TurnsSeen < 3,
                       \E i \in 1..Len(u) : ExpenseAt(u, i).amt # 0,
                       HasAnalysisKeyword(u) /\ DictHas(user_data, "income"),
                       TRUE>>
            cats == <<"rename", "identity", "savings_goal_added", "income_added",
                      "expense_added", "budget_analysis", "general">>
        IN \E k \in 1..7 :
              /\ last.category = cats[k]
              /\ conds[k]
              /\ \A j \in 1..(k - 1) : ~conds[j]

\* An expense statement answered by the income acknowledgment, which comes first.
C9_Witness ==
    /\ PolicyRan
    /\ last.category = "income_added"
    /\ ExpenseMatches(last.input) # <<>>

\* The latest step ran extract_financial_info.
ExtractorRan(l) ==
    \/ l.op = "extract_financial_info"
    \/ l.op \in {"get_ai_response", "process_input"} /\ l.reply.src = "remote"

\* C10: after extract_financial_info each ledger key matched by the utterance
\* holds the amount of the last match for that key (replaced, not added to),
\* and the other keys are unchanged.
C10_LastWriteWins ==
    [][LET ms == IF ExtractorRan(last') THEN ExpenseMatches(last'.input) ELSE <<>>
           keys == {ms[i].category : i \in 1..Len(ms)}
       IN /\ DictKeys(expenses') = DictKeys(expenses) \cup keys
          /\ \A k \in keys :
                \E i \in 1..Len(ms) :
                   /\ ms[i].category = k
                   /\ \A j \in (i + 1)..Len(ms) : ms[j].category # k
                   /\ DictGet(expenses', k) = ms[i].amount
          /\ \A k \in DictKeys(expenses) \ keys : DictGet(expenses', k) = DictGet(expenses, k)]_vars

\* A category stated twice holds its later amount beside another category.
C10_Witness ==
    /\ last.op = "extract_financial_info"
    /\ last.input = U_restate
    /\ DictHas(expenses, <<"rent">>)
    /\ DictGet(expenses, <<"food">>) = 300

\* The facts of a session right after construction.
FreshFacts == [user_data |-> <<>>, expenses |-> <<>>, user_name |-> None]

\* C11: extraction is idempotent: in the state extract_financial_info leaves
\* for an utterance (run on a fresh session or on any other), running it on
\* the same utterance once more leaves name, income, savings goal and ledger
\* as they are.
C11_ExtractionIdempotent ==
    ExtractorRan(last) => ExtractFinancialInfoOn(Facts, last.input) = Facts

\* The extractor has run on a fresh session, on an utterance stating an income.
C11_Witness ==
    /\ last.op = "extract_financial_info"
    /\ last.input = U_income
    /\ Facts = ExtractFinancialInfoOn(FreshFacts, U_income)
    /\ DictGet(user_data, "income") = 10000

\* The latest call returned a budget analysis.
IsAnalysisReply ==
    /\ last.op = "generate_contextual_response"
    /\ last.category = "budget_analysis"
    /\ ~last.raised

\* Item i of the ledger has the highest amount, and no item before it has.
IsFirstHighest(i) ==
    /\ \A j \in 1..Len(expenses) : expenses[j].value <= expenses[i].value
    /\ \A j \in 1..(i - 1) : expenses[j].value < expenses[i].value

\* p tenths of a percent is amount / income * 100 to the nearest tenth.
IsShare(p, amount, income) ==
    /\ 2 * (p * income - 1000 * amount) <= income
    /\ 2 * (1000 * amount - p * income) <= income

\* C12: in a budget-analysis reply remaining is income minus the sum of the
\* ledger amounts; with a non-empty ledger the advice is rendered for the
\* category of the highest amount, the first entered among equals, and its
\* share amount / income * 100 (in the placeholders the chosen template has);
\* with an empty ledger the advice is the generic track-your-expenses one.
C12_AnalysisFigures ==
    IsAnalysisReply =>
        LET income == DictGet(user_data, "income")
            a == last.reply.advice
        IN /\ last.reply.income = Format0(income)
           /\ last.reply.total = Format0(Sum(DictValues(expenses)))
           /\ last.reply.remaining = Format0(income - Sum(DictValues(expenses)))
           /\ IF expenses = <<>> THEN a = GenericAdvice
              ELSE \E i \in 1..Len(expenses) :
                      /\ IsFirstHighest(i)
                      /\ a.kind = "template"
                      /\ "category" \in AdviceFields(a.variant) => a.category = expenses[i].key
                      /\ "amount" \in AdviceFields(a.variant) => a.amount = Format0(expenses[i].value)
                      /\ "percent" \in AdviceFields(a.variant) =>
                             IsShare(a.percent, expenses[i].value, income)

\* Rent and travel both at 4000 with rent entered first, income 10000: the
\* advice names rent at 40.0 percent and 1000 remains.
C12_Witness ==
    /\ IsAnalysisReply
    /\ Len(expenses) = 3
    /\ expenses[1].key = <<"rent">> /\ expenses[2].key = <<"travel">>
    /\ expenses[1].value = expenses[2].value
    /\ last.reply.advice.variant = 2
    /\ last.reply.advice.category = <<"rent">>
    /\ last.reply.advice.percent = 400
    /\ last.reply.remaining = Format0(1000)

\* C13: in every budget-analysis reply with a non-empty ledger, whichever
\* advice template is chosen, the advice names the category of the highest
\* amount and its percentage of the income.
C13_AdviceNamesHighest ==
    (IsAnalysisReply /\ expenses # <<>>) =>
        \E i \in 1..Len(expenses) :
           /\ IsFirstHighest(i)
           /\ last.reply.advice.category = expenses[i].key
           /\ IsShare(last.reply.advice.percent, expenses[i].value, DictGet(user_data, "income"))

\* C14: two conversations served by the one chatbot object are not isolated.
\* Conversation B states no fact, yet a request of B is answered from the
\* session as the requests of A left it: its prompt carries the name, income
\* and expenses extracted from A's utterances and the turns of A, and its
\* local reply greets with A's name or analyses A's income.
C14_CrossTalk ==
    [][(last'.op = "chat" /\ last'.client = "B") =>
          /\ last'.prompt.sent =>
                /\ last'.prompt.financial_context = FormatFinancialContext(Session)
                /\ last'.prompt.context = FormatConversationHistory(conversation_history)
          /\ (last'.reply.src = "fallback" /\ last'.category = "general") =>
                last'.reply.name = user_name
          /\ (last'.reply.src = "fallback" /\ last'.category \in {"income_added", "budget_analysis"}) =>
                last'.reply.income = Format0(DictGet(user_data, "income"))]_vars

\* A prompt sent for B that holds A's name, A's income and A's turn.
C14_Witness ==
    /\ last.op = "chat" /\ last.client = "B"
    /\ last.prompt.sent
    /\ last.prompt.financial_context.name = "Ankit"
    /\ \E i \in 1..Len(last.prompt.financial_context.data) :
          last.prompt.financial_context.data[i] = [label |-> "Monthly Income", value |-> Format2(10000)]
    /\ \E i \in 1..Len(last.prompt.context.lines) :
          last.prompt.context.lines[i] = UserTurn(U_name)

\* C15: handle_capabilities on an utterance that matches the capabilities
\* pattern, in any session, returns the three headers budget, travel and
\* banking with the 12 static capability lines, 4 under each in their fixed
\* order; on any other utterance it returns nothing; in both cases it leaves
\* the session and the capability list as they are.
C15_Capabilities ==
    [][last'.op = "handle_capabilities" =>
          /\ IF IsCapabilityQuery(last'.input)
             THEN last'.reply.groups =
                     <<[header |-> "Budget Management",
                        items |-> <<"Create and manage monthly budgets",
                                    "Plan and optimize travel budgets",
                                    "Track travel expenses and savings",
                                    "Set travel savings goals">>],
                       [header |-> "Travel Finance",
                        items |-> <<"Analyze spending patterns for travel",
                                    "Calculate travel expense ratios",
                                    "Suggest travel cost-saving strategies",
                                    "Help with travel budget management">>],
                       [header |-> "Banking Information",
                        items |-> <<"Provide up-to-date FD rates from major banks",
                                    "Compare various banking products and services",
                                    "Offer information about loan interest rates",
                                    "Explain different types of bank accounts and their benefits">>]>>
             ELSE last'.reply = NoReply
          /\ Session' = Session
          /\ capabilities' = capabilities
          /\ last_greeting_time' = last_greeting_time]_vars

\* The capabilities were listed in a session that holds a name, an income,
\* an expense, turns and a greeting time.
C15_Witness ==
    /\ last.op = "handle_capabilities"
    /\ last.input = U_features
    /\ Len(last.reply.groups) = 3
    /\ user_name # None /\ user_data # <<>> /\ expenses # <<>>
    /\ conversation_history # <<>>
    /\ last_greeting_time # -1

\* C16: in every reachable session the income and the savings goal are unset
\* or strictly positive and every ledger amount is strictly positive: a
\* stated amount of 0 is not recorded.
C16_PositiveAmounts ==
    /\ \A i \in 1..Len(user_data) : user_data[i].value > 0
    /\ \A i \in 1..Len(expenses) : expenses[i].value > 0

\* C17: generate_contextual_response only reads the session: name, income,
\* savings goal, ledger, history and greeting time are after the call what
\* they were before it, and a step that changes a fact ran extract_financial_info.
C17_PolicyOnlyReads ==
    [][/\ last'.op = "generate_contextual_response" =>
             /\ Session' = Session
             /\ last_greeting_time' = last_greeting_time
       /\ Facts' # Facts => ExtractorRan(last')]_vars

====
